---- MODULE Spec2Model ----
(***************************************************************************)
(* A model of ewor_brainfuck: the tape machine BF (src/src/bf.rs), its     *)
(* syscall gateway (execute_bfa / validate_syscall) and the SIL compiler   *)
(* BFLCompiler (src/src/bfl.rs).                                           *)
(*                                                                         *)
(* Cells are u32.  TLC's integers are 32-bit signed, so a cell value v is  *)
(* held in two's complement: v itself when v < 2^31, v - 2^32 otherwise    *)
(* (2^32 - 1 is held as 0 - 1).  wrapping_add / wrapping_sub, `as u8` and  *)
(* the comparisons against the tape length are defined on that encoding.   *)
(* Program indices (pc, positions in code) are 0-based as in the source;   *)
(* the sequence `code` is 1-based, so the instruction at pc is code[pc+1]. *)
(***************************************************************************)
EXTENDS Integers, Sequences, FiniteSets, TLC

\* ------------------------------------------------------------------ bounds
\* Length of the tape (the source allocates 65536 cells; the model a prefix
\* long enough for the syscall area, the first variables and their scratch).
TapeLen == 12
\* Longest program text enumerated character by character.
MaxLen == 3
\* Instructions executed by one run before the model stops following it.
MaxSteps == 300
\* Largest literal / loop count / byte value used in the compiled SIL trees.
MaxNum == 4
\* Number of compile() calls made on one compiler.
MaxCompiles == 5

\* ------------------------------------------------- cell arithmetic (u32)
\* the largest encoded value, 2^31 - 1, and the encoding of 2^31
I32Max == 2147483647
I32Min == (0 - I32Max) - 1

\* u32::wrapping_add(1)
WrappingAdd1(v) == IF v = I32Max THEN I32Min ELSE v + 1
\* a subtraction that stops at 0
SaturatingSub1(v) == IF v = 0 THEN 0 ELSE v - 1
\* u32::wrapping_sub(1)
WrappingSub1(v) == IF v = I32Min THEN I32Max ELSE v - 1
\* the cell pushed whole, with no narrowing to a byte
AsU32(v) == v
\* `x as u8`: the low eight bits (2^32 is a multiple of 256)
AsU8(v) == v % 256
\* `x as usize` compared with the tape length: an encoded negative is >= 2^31
IndexInTape(v) == v >= 0 /\ v < TapeLen

\* ------------------------------------------------------------ error values
Ok == [kind |-> "Ok", msg |-> ""]
Err(k, m) == [kind |-> k, msg |-> m]
Panic(m) == [kind |-> "Panic", msg |-> m]

\* ------------------------------------------------------------------- state
VARIABLES
    cells,      \* BF.cells : Vec<u32>
    ptr,        \* BF.ptr
    code,       \* BF.code : Vec<char>
    pc,         \* BF.pc
    output,     \* BF.output : Vec<u8>
    mode,       \* BF.mode : "BF" | "BFA"
    status,     \* where run() is: "new", "running", "ok", "err", "panic"
    err,        \* the BFError run() returned (Ok while there is none)
    stdin,      \* bytes still to be read from standard input
    hostCalls,  \* the host calls made through syscall!(), in order
    testBuild,  \* cfg(test)
    steps,      \* iterations of run()'s loop so far
    compiler,   \* the BFLCompiler that produced `code` (untouched for raw text)
    tree        \* the SIL tree handed to compile (tag "Text" for raw text)

vars == <<cells, ptr, code, pc, output, mode, status, err, stdin, hostCalls,
          testBuild, steps, compiler, tree>>

\* The part of BF the instruction handlers read and write.
Machine == [cells |-> cells, ptr |-> ptr, pc |-> pc, output |-> output, stdin |-> stdin]

\* a tape whose first cell is not zero when the run begins
DirtyTape == [i \in 0..(TapeLen - 1) |-> IF i = 0 THEN 1 ELSE 0]

\* vec![0u32; 65536]
ZeroTape == [i \in 0..(TapeLen - 1) |-> 0]

\* ------------------------------------------------------------ BF::run scan
\* The scans of the source visit the text character by character and only
\* '[' and ']' change what they carry; the operators below go from one
\* bracket to the next, which leaves the characters in between out.
IsBracket(c, p) == c[p + 1] = "[" \/ c[p + 1] = "]"

\* the first index >= from holding a bracket, Len(c) when there is none
NextBracket(c, from) ==
    IF \E p \in from..(Len(c) - 1) : IsBracket(c, p)
    THEN CHOOSE p \in from..(Len(c) - 1) :
            IsBracket(c, p) /\ \A q \in from..(p - 1) : ~IsBracket(c, q)
    ELSE Len(c)

\* the last index <= from holding a bracket, -1 when there is none
PrevBracket(c, from) ==
    IF \E p \in 0..from : IsBracket(c, p)
    THEN CHOOSE p \in 0..from :
            IsBracket(c, p) /\ \A q \in (p + 1)..from : ~IsBracket(c, q)
    ELSE 0 - 1

RECURSIVE ScanBrackets(_, _, _)
\* The pre-scan of run(): walks code from index i with the running depth and
\* returns the BracketMismatch it raises, or Ok.
ScanBrackets(c, i, depth) ==
    LET p == NextBracket(c, i) IN
    IF p >= Len(c)
    THEN IF depth > 0 THEN Err("BracketMismatch", "Unmatched [") ELSE Ok
    ELSE IF c[p + 1] = "["
         THEN ScanBrackets(c, p + 1, depth + 1)
         ELSE IF depth - 1 < 0
              THEN Err("BracketMismatch", "Unmatched ]")
              ELSE ScanBrackets(c, p + 1, depth - 1)

\* A pre-scan that only looks at the final depth.
ValidateBracketsFinalDepthOnly(c) ==
    LET opens == Cardinality({i \in 1..Len(c) : c[i] = "["})
        closes == Cardinality({i \in 1..Len(c) : c[i] = "]"})
    IN IF opens > closes THEN Err("BracketMismatch", "Unmatched [") ELSE Ok

ValidateBrackets(c) == ScanBrackets(c, 0, 0)

\* ------------------------------------------------------ BF::execute_bf
RECURSIVE ScanForwardFirstClose(_, _, _)
\* A forward scan that stops at the first ']' whatever its nesting depth.
ScanForwardFirstClose(c, pos, depth) ==
    LET p == NextBracket(c, pos + 1) IN
    IF p >= Len(c) THEN 0 - 1
    ELSE IF c[p + 1] = "]" THEN p ELSE ScanForwardFirstClose(c, p, depth)

RECURSIVE ScanForward(_, _, _)
\* The forward scan of '[': from pos with depth > 0; the index of the
\* bracket that brings depth to 0, or -1 when pos runs off the text.
ScanForward(c, pos, depth) ==
    LET p == NextBracket(c, pos + 1) IN
    IF p >= Len(c) THEN 0 - 1
    ELSE LET d == IF c[p + 1] = "[" THEN depth + 1 ELSE depth - 1
         IN IF d > 0 THEN ScanForward(c, p, d) ELSE p

RECURSIVE ScanBackwardFirstOpen(_, _, _)
\* A backward scan that stops at the first '[' whatever its nesting depth.
ScanBackwardFirstOpen(c, pos, depth) ==
    LET p == PrevBracket(c, pos - 1) IN
    IF p < 0 THEN 0 - 1
    ELSE IF c[p + 1] = "[" THEN p ELSE ScanBackwardFirstOpen(c, p, depth)

RECURSIVE ScanBackward(_, _, _)
\* The backward scan of ']': the index of the bracket that brings depth to
\* 0, or -1 when pos reaches 0 first.
ScanBackward(c, pos, depth) ==
    LET p == PrevBracket(c, pos - 1) IN
    IF p < 0 THEN 0 - 1
    ELSE LET d == IF c[p + 1] = "[" THEN depth - 1 ELSE depth + 1
         IN IF d > 0 THEN ScanBackward(c, p, d) ELSE p

\* ']' with a nonzero cell: self.pc = pos - 1.
CloseJumpTarget(pos) == pos - 1

\* a '<' that never sees the start of the tape
PtrNeverAtStart(p) == FALSE

\* if self.ptr == 0
PtrAtStart(p) == p = 0

\* a bound check that lets the pointer reach the tape length
PtrPastTapeLenOnly(p) == p > TapeLen

\* if self.ptr >= self.cells.len()
PtrOutOfBounds(p) == p >= TapeLen

\* One instruction in base mode.  flushOk: whether stdout's flush succeeds;
\* overflowChecks: whether the build panics on integer overflow (debug) or
\* wraps (release).  Returns the machine and the handler's result.
ExecuteBf(c, m, flushOk, overflowChecks) ==
    LET ins == c[m.pc + 1] IN
    CASE ins = ">" ->
           IF PtrOutOfBounds(m.ptr + 1)
           THEN [m |-> [m EXCEPT !.ptr = m.ptr + 1],
                 res |-> Err("MemoryAccess", "Pointer out of bounds")]
           ELSE [m |-> [m EXCEPT !.ptr = m.ptr + 1], res |-> Ok]
      [] ins = "<" ->
           IF PtrAtStart(m.ptr)
           THEN [m |-> m, res |-> Err("MemoryAccess", "Pointer out of bounds")]
           ELSE [m |-> [m EXCEPT !.ptr = m.ptr - 1], res |-> Ok]
      [] ins = "+" ->
           [m |-> [m EXCEPT !.cells[m.ptr] = WrappingAdd1(m.cells[m.ptr])], res |-> Ok]
      [] ins = "-" ->
           [m |-> [m EXCEPT !.cells[m.ptr] = WrappingSub1(m.cells[m.ptr])], res |-> Ok]
      [] ins = "." ->
           [m |-> [m EXCEPT !.output = Append(m.output, AsU8(m.cells[m.ptr]))],
            res |-> IF flushOk THEN Ok ELSE Err("SyscallFailed", "flush")]
      [] ins = "," ->
           IF m.stdin = <<>>
           THEN [m |-> m, res |-> Err("SyscallFailed", "Input failed")]
           ELSE [m |-> [m EXCEPT !.cells[m.ptr] = Head(m.stdin), !.stdin = Tail(m.stdin)],
                 res |-> Ok]
      [] ins = "[" ->
           IF m.cells[m.ptr] = 0
           THEN LET pos == ScanForward(c, m.pc, 1) IN
                IF pos < 0
                THEN [m |-> m, res |-> Err("BracketMismatch", "Unmatched [")]
                ELSE [m |-> [m EXCEPT !.pc = pos], res |-> Ok]
           ELSE [m |-> m, res |-> Ok]
      [] ins = "]" ->
           IF m.cells[m.ptr] # 0
           THEN LET pos == ScanBackward(c, m.pc, 1) IN
                IF pos < 0
                THEN [m |-> m, res |-> Err("BracketMismatch", "Unmatched ]")]
                ELSE IF pos = 0 /\ overflowChecks
                     THEN [m |-> m, res |-> Panic("attempt to subtract with overflow")]
                     \* pos = 0 in a release build: usize::MAX, held as -1, which
                     \* the wrapping pc += 1 of run() turns into 0
                     ELSE [m |-> [m EXCEPT !.pc = CloseJumpTarget(pos)], res |-> Ok]
           ELSE [m |-> m, res |-> Ok]
      [] OTHER -> [m |-> m, res |-> Ok]

\* ------------------------------------------------- syscall numbers (bf.rs)
SYS_READ == 3
SYS_WRITE == 4
SYS_ACCEPT_OLD == 5
SYS_CLOSE == 6
SYS_ACCEPT == 48
SYS_SOCKET == 97
SYS_BIND == 104
SYS_LISTEN == 106

\* ------------------------------------------- syscall_consts.rs (per platform)
\* #[cfg(target_os = "linux")]
LinuxSyscalls ==
    [read |-> 0, write |-> 1, close |-> 3, socket |-> 41, bind |-> 49,
     listen |-> 50, accept |-> 43]
\* #[cfg(target_os = "macos")]
MacosSyscalls ==
    [read |-> 3, write |-> 4, close |-> 6, socket |-> 97, bind |-> 104,
     listen |-> 106, accept |-> 30]

\* ---------------------------------------------------- BF::validate_syscall
\* a validation that lets every number through to the dispatch
ValidateSyscallNumbersUnchecked(syscall_num, args) == Ok

\* args is the array built by execute_bfa: args[i] = cells[i + 1], i in 0..5.
ValidateSyscall(syscall_num, args) ==
    CASE syscall_num = SYS_READ \/ syscall_num = SYS_WRITE ->
           LET buf_addr == args[1]
               buf_len == args[2]
           IN \* buf_addr + buf_len > len, written so that TLC's integers do not
              \* overflow; an encoded negative is a value >= 2^31 > len
              IF \/ ~IndexInTape(buf_addr)
                 \/ buf_len = 0
                 \/ buf_len < 0
                 \/ buf_len > TapeLen - buf_addr
              THEN Err("MemoryAccess", "Buffer overflow")
              ELSE Ok
      [] syscall_num \in {SYS_ACCEPT, SYS_SOCKET, SYS_BIND, SYS_LISTEN, SYS_CLOSE} -> Ok
      [] OTHER -> Err("InvalidSyscall", "Invalid syscall number")

\* #[cfg(test)]: (2..=6).contains(&(syscall_num as u8))
TestModeDenies(syscall_num) == AsU8(syscall_num) \in 2..6

\* ------------------------------------------------------------ host answers
\* What the kernel may answer to a call: failure, or success with a number
\* (a byte count, a descriptor, 0) and, for read and accept, the bytes stored.
HostBytes == {10, 200}
HostFds == {3}

HostAnswers(syscall_num, args) ==
    {[ok |-> FALSE, n |-> 0, data |-> <<>>]} \cup
    (CASE syscall_num = SYS_WRITE ->
            {[ok |-> TRUE, n |-> k, data |-> <<>>] : k \in {a \in {0, args[2]} : a >= 0}}
       [] syscall_num = SYS_READ ->
            {[ok |-> TRUE, n |-> k, data |-> [i \in 1..k |-> b]] :
                k \in {a \in {0, 1, args[2]} : a >= 0 /\ a <= args[2]}, b \in HostBytes}
       [] syscall_num \in {SYS_SOCKET, SYS_ACCEPT_OLD} ->
            {[ok |-> TRUE, n |-> fd, data |-> <<>>] : fd \in HostFds}
       [] syscall_num = SYS_ACCEPT ->
            {[ok |-> TRUE, n |-> fd, data |-> d] : fd \in HostFds, d \in {<<>>} \cup {<<b>> : b \in HostBytes}}
       [] OTHER -> {[ok |-> TRUE, n |-> 0, data |-> <<>>]})

\* The host call as the kernel saw it.
HostCall(name, a, host) == [name |-> name, args |-> a, ret |-> IF host.ok THEN host.n ELSE 0 - 1]

\* the cells of the slice handed over whole, not narrowed to bytes
SliceAsIs(cs, from, len) == [k \in 1..len |-> cs[from + k - 1]]

\* cells[from..from + len] as bytes (`x as u8` of each cell)
SliceAsU8(cs, from, len) == [k \in 1..len |-> AsU8(cs[from + k - 1])]

\* A slice cells[a..a + n] that is in range (Rust panics otherwise).
SliceInTape(a, n) == a >= 0 /\ n >= 0 /\ a <= TapeLen /\ n <= TapeLen - a

\* -------------------------------------------- BF::execute_bfa, '.' arms
\* Each arm returns the machine, the arm's Result (res; ret when it is Ok)
\* and the host calls it made.
SysWrite(m, args, host, flushOk) ==
    LET buf == SliceAsU8(m.cells, args[1], args[2])
        call == HostCall("write", <<args[0], buf, args[2]>>, host)
    IN IF ~host.ok
       THEN [m |-> m, res |-> Err("SyscallFailed", "write syscall failed"), ret |-> 0,
             calls |-> <<call>>]
       ELSE LET m1 == [m EXCEPT !.cells[7] = host.n] IN
            IF args[0] = 1 /\ ~flushOk
            THEN [m |-> m1, res |-> Err("SyscallFailed", "Failed to flush stdout"),
                  ret |-> 0, calls |-> <<call>>]
            ELSE [m |-> m1, res |-> Ok, ret |-> host.n, calls |-> <<call>>]

SysSocket(m, args, host) ==
    LET call == HostCall("socket", <<args[0], args[1], args[2]>>, host) IN
    IF ~host.ok
    THEN [m |-> m, res |-> Err("SyscallFailed", "socket syscall failed"), ret |-> 0,
          calls |-> <<call>>]
    ELSE [m |-> [m EXCEPT !.cells[0] = host.n, !.cells[7] = 0], res |-> Ok,
          ret |-> host.n, calls |-> <<call>>]

SysBind(m, args, host) ==
    LET fd == m.cells[0] IN
    IF ~SliceInTape(args[1], args[2])
    THEN [m |-> m, res |-> Panic("range end index out of range for slice"), ret |-> 0,
          calls |-> <<>>]
    ELSE IF args[2] < 8
    THEN [m |-> m, res |-> Panic("index out of bounds"), ret |-> 0, calls |-> <<>>]
    ELSE LET buf == SliceAsU8(m.cells, args[1], args[2])
             call == HostCall("bind", <<fd, buf, args[2]>>, host)
         IN IF ~host.ok
            THEN [m |-> m, res |-> Err("SyscallFailed", "bind syscall failed"), ret |-> 0,
                  calls |-> <<call>>]
            ELSE [m |-> [m EXCEPT !.cells[7] = host.n], res |-> Ok, ret |-> host.n,
                  calls |-> <<call>>]

SysListen(m, args, host) ==
    LET fd == m.cells[0]
        call == HostCall("listen", <<fd, args[1]>>, host)
    IN IF ~host.ok
       THEN [m |-> m, res |-> Err("SyscallFailed", "listen syscall failed"), ret |-> 0,
             calls |-> <<call>>]
       ELSE [m |-> [m EXCEPT !.cells[7] = host.n], res |-> Ok, ret |-> host.n,
             calls |-> <<call>>]

\* the arm for 5, which validate_syscall never lets through
SysAcceptOld(m, args, host) ==
    LET fd == m.cells[0] IN
    IF ~SliceInTape(args[1], args[2])
    THEN [m |-> m, res |-> Panic("range end index out of range for slice"), ret |-> 0,
          calls |-> <<>>]
    ELSE LET buf == SliceAsU8(m.cells, args[1], args[2])
             call == HostCall("accept", <<fd, buf, args[2]>>, host)
         IN IF ~host.ok
            THEN [m |-> m, res |-> Err("SyscallFailed", "accept syscall failed"), ret |-> 0,
                  calls |-> <<call>>]
            ELSE [m |-> [m EXCEPT !.cells[0] = host.n, !.cells[7] = 0], res |-> Ok,
                  ret |-> host.n, calls |-> <<call>>]

SysRead(m, args, host) ==
    LET fd == args[0]
        \* the buffer is recorded as the kernel filled it
        call == HostCall("read", <<fd, host.data, args[2]>>, host)
    IN IF ~host.ok
       THEN [m |-> m, res |-> Err("SyscallFailed", "read syscall failed"), ret |-> 0,
             calls |-> <<call>>]
       ELSE LET stored == [i \in 0..(TapeLen - 1) |->
                             IF i >= args[1] /\ i < args[1] + host.n
                             THEN host.data[i - args[1] + 1]
                             ELSE m.cells[i]]
            IN [m |-> [m EXCEPT !.cells = [stored EXCEPT ![0] = host.n, ![7] = 0]],
                res |-> Ok, ret |-> host.n, calls |-> <<call>>]

\* accept through 48: the descriptor is read from the cell args[0] names; the
\* kernel stores the peer address at the cell args[1] names (host.data, kept
\* inside the tape) and the new length in addr_len.
SysAccept(m, args, host) ==
    IF ~IndexInTape(args[0]) \/ ~IndexInTape(args[2]) \/ ~IndexInTape(args[1])
    THEN [m |-> m, res |-> Panic("index out of bounds"), ret |-> 0, calls |-> <<>>]
    ELSE LET socket_fd == m.cells[args[0]]
             addr_ptr == args[1]
             addr_len_ptr == args[2]
             addr_len == m.cells[addr_len_ptr]
             call == HostCall("accept", <<socket_fd, addr_ptr, addr_len>>, host)
         IN IF ~host.ok
            THEN [m |-> m, res |-> Err("SyscallFailed", "accept syscall failed"), ret |-> 0,
                  calls |-> <<call>>]
            ELSE LET written == [i \in 0..(TapeLen - 1) |->
                                   IF i >= addr_ptr /\ i < addr_ptr + Len(host.data)
                                   THEN host.data[i - addr_ptr + 1]
                                   ELSE m.cells[i]]
                 IN [m |-> [m EXCEPT !.cells = [written EXCEPT ![0] = host.n, ![7] = 0,
                                                 ![addr_len_ptr] = Len(host.data)]],
                     res |-> Ok, ret |-> host.n, calls |-> <<call>>]

SysClose(m, args, host) ==
    LET call == HostCall("close", <<args[0]>>, host) IN
    IF ~host.ok
    THEN [m |-> m, res |-> Err("SyscallFailed", "close syscall failed"), ret |-> 0,
          calls |-> <<call>>]
    ELSE [m |-> m, res |-> Ok, ret |-> host.n, calls |-> <<call>>]

\* self.cells[7] = result as u32
StoreResult(m, result) == [m EXCEPT !.cells[7] = result]

\* The '.' arm of execute_bfa: the syscall trap.
SyscallTrap(m, test, host, flushOk) ==
    LET syscall_num == m.cells[7]
        args == [i \in 0..5 |-> m.cells[i + 1]]
    IN IF test /\ TestModeDenies(syscall_num)
       THEN [m |-> m, calls |-> <<>>,
             res |-> Err("InvalidSyscall",
                         "Permission denied: socket operations not allowed in test mode")]
       ELSE IF ValidateSyscall(syscall_num, args) # Ok
       THEN [m |-> m, calls |-> <<>>, res |-> ValidateSyscall(syscall_num, args)]
       ELSE LET r == CASE syscall_num = SYS_WRITE -> SysWrite(m, args, host, flushOk)
                       [] syscall_num = SYS_SOCKET -> SysSocket(m, args, host)
                       [] syscall_num = SYS_BIND -> SysBind(m, args, host)
                       [] syscall_num = SYS_LISTEN -> SysListen(m, args, host)
                       [] syscall_num = SYS_ACCEPT_OLD -> SysAcceptOld(m, args, host)
                       [] syscall_num = SYS_READ -> SysRead(m, args, host)
                       [] syscall_num = SYS_ACCEPT -> SysAccept(m, args, host)
                       [] syscall_num = SYS_CLOSE -> SysClose(m, args, host)
                       [] OTHER -> [m |-> m, res |-> Err("InvalidSyscall", "Invalid syscall"),
                                    ret |-> 0, calls |-> <<>>]
            IN IF r.res # Ok
               THEN [m |-> r.m, calls |-> r.calls, res |-> r.res]
               ELSE [m |-> StoreResult(r.m, r.ret), calls |-> r.calls, res |-> Ok]

\* a handler whose last arm rejects the characters that are no instruction
ExecuteBfaRejectingOthers(c, m, overflowChecks) ==
    IF c[m.pc + 1] \in {">", "<", "+", "-", "[", "]"}
    THEN ExecuteBf(c, m, TRUE, overflowChecks)
    ELSE IF c[m.pc + 1] = "," THEN [m |-> m, res |-> Ok]
    ELSE [m |-> m, res |-> Err("InvalidSyscall", "unknown instruction")]

\* The other arms of execute_bfa: '>' '<' '+' '-' '[' ']' go to execute_bf,
\* every other character (',' among them) is Ok(()).
ExecuteBfaOther(c, m, overflowChecks) ==
    IF c[m.pc + 1] \in {">", "<", "+", "-", "[", "]"}
    THEN ExecuteBf(c, m, TRUE, overflowChecks)
    ELSE [m |-> m, res |-> Ok]


\* ------------------------------------------------------------- SIL (BFLNode)
Number(n) == [tag |-> "Number", n |-> n]
\* a String holds its characters as code points
String(s) == [tag |-> "String", s |-> s]
Bytes(b) == [tag |-> "Bytes", bytes |-> b]
Variable(name) == [tag |-> "Variable", name |-> name]
Assign(name, expr) == [tag |-> "Assign", name |-> name, expr |-> expr]
Add(l, r) == [tag |-> "Add", left |-> l, right |-> r]
Sub(l, r) == [tag |-> "Sub", left |-> l, right |-> r]
If(cond, body) == [tag |-> "If", condition |-> cond, body |-> body]
While(cond, body) == [tag |-> "While", condition |-> cond, body |-> body]
Syscall(number, args) == [tag |-> "Syscall", number |-> number, args |-> args]
Block(stmts) == [tag |-> "Block", statements |-> stmts]

\* ------------------------------------------------------------- BFLCompiler
\* BFLCompiler::new(); error is "" until compile returns Err or panics.
NewCompiler ==
    [variables |-> <<>>, next_var_location |-> 8, output |-> <<>>, error |-> ""]

\* output.push_str / push; nothing is emitted once compile has returned Err
Emit(st, s) == IF st.error # "" THEN st ELSE [st EXCEPT !.output = @ \o s]

\* &"+".repeat(n as usize): a negative n is a huge usize and repeat panics
EmitPlus(st, n) ==
    IF st.error # "" THEN st
    ELSE IF n < 0 THEN [st EXCEPT !.error = "panic: capacity overflow"]
    ELSE [st EXCEPT !.output = @ \o [i \in 1..n |-> "+"]]

\* nothing emitted where the cell is cleared
NoClear == <<>>
\* "[-]"
CLEAR == <<"[", "-", "]">>
\* "[->+>+<<]>>[-<<+>>]<<"
COPY == <<"[", "-", ">", "+", ">", "+", "<", "<", "]", ">", ">",
          "[", "-", "<", "<", "+", ">", ">", "]", "<", "<">>
\* "[>+<-]>"
MOVE_RIGHT == <<"[", ">", "+", "<", "-", "]", ">">>
\* the subtraction idiom with its ']' left out
SUB_LEFT_UNCLOSED == <<"[", "-", "<", "-", ">", "<">>
\* "[-<->]<"
SUB_LEFT == <<"[", "-", "<", "-", ">", "]", "<">>
\* "[-<+>]<"
ADD_LEFT == <<"[", "-", "<", "+", ">", "]", "<">>

\* current_position: the '>' minus the '<' of the whole output.  The source
\* casts the i32 count to usize and move_to casts it back, so the signed
\* count is what the arithmetic sees.
CurrentPosition(st) ==
    Cardinality({i \in 1..Len(st.output) : st.output[i] = ">"})
    - Cardinality({i \in 1..Len(st.output) : st.output[i] = "<"})

MoveTo(st, location) ==
    LET diff == location - CurrentPosition(st)
    IN IF diff > 0 THEN Emit(st, [i \in 1..diff |-> ">"])
       ELSE IF diff < 0 THEN Emit(st, [i \in 1..(0 - diff) |-> "<"])
       ELSE st

\* a location that depends on how many statements were compiled before, as
\* an allocator reading state outside the compiler would give
AllocateVariableByHistory(st, name) ==
    IF st.error # "" \/ name \in DOMAIN st.variables THEN st
    ELSE [st EXCEPT !.variables = @ @@ (name :> st.next_var_location
                                                  + (Len(tree.statements) % 2)),
                    !.next_var_location = st.next_var_location + 2]

\* allocate_variable: the compiler after the call (the location returned is
\* VarLocation of it)
AllocateVariable(st, name) ==
    IF st.error # "" \/ name \in DOMAIN st.variables THEN st
    ELSE [st EXCEPT !.variables = @ @@ (name :> st.next_var_location),
                    !.next_var_location = st.next_var_location + 1]

\* get_variable_location
VarLocation(st, name) == st.variables[name]

\* `c as u8` of a char
CharAsU8(c) == c % 256
\* the bytes of a char in UTF-8 (String::len counts them)
Utf8Len(c) == IF c < 128 THEN 1 ELSE IF c < 2048 THEN 2 ELSE IF c < 65536 THEN 3 ELSE 4

RECURSIVE StrLen(_)
StrLen(s) == IF s = <<>> THEN 0 ELSE Utf8Len(Head(s)) + StrLen(Tail(s))

\* the values written over one another in one cell: the last one remains
EmitCellsInPlace(st, values) ==
    IF values = <<>> THEN st
    ELSE Emit(EmitPlus(Emit(st, CLEAR), values[Len(values)]), <<">">>)

RECURSIVE EmitCells(_, _)
\* per value: "[-]", that many '+', '>'
EmitCells(st, values) ==
    IF values = <<>> THEN st
    ELSE EmitCells(Emit(EmitPlus(Emit(st, CLEAR), Head(values)), <<">">>), Tail(values))

\* the loop over the bytes followed by the pop() of the last '>'
StoreCells(st, values) ==
    LET st1 == EmitCells(st, values) IN
    IF values = <<>> \/ st1.error # "" THEN st1
    ELSE [st1 EXCEPT !.output = SubSeq(@, 1, Len(@) - 1)]

\* self.next_var_location = x
SetNextVarLocation(st, x) ==
    IF st.error # "" THEN st ELSE [st EXCEPT !.next_var_location = x]

RECURSIVE Compile(_, _)
RECURSIVE CompileAll(_, _)
RECURSIVE AssignBlockStatements(_, _, _, _)
RECURSIVE SyscallBlockArg(_, _, _)
RECURSIVE SyscallArgs(_, _, _)

\* for stmt in statements { self.compile(stmt)?; }
CompileAll(st, nodes) ==
    IF nodes = <<>> \/ st.error # "" THEN st
    ELSE CompileAll(Compile(st, Head(nodes)), Tail(nodes))

\* Assign(name, Block): the loop over (offset, stmt)
AssignBlockStatements(st, data_start, statements, offset) ==
    IF offset >= Len(statements) \/ st.error # "" THEN st
    ELSE LET stmt == statements[offset + 1]
             st1 == Emit(MoveTo(st, data_start + offset), CLEAR)
             st2 == IF stmt.tag = "Number"
                    THEN (IF stmt.n > 0 THEN EmitPlus(st1, stmt.n) ELSE st1)
                    ELSE Compile(st1, stmt)
         IN AssignBlockStatements(st2, data_start, statements, offset + 1)

\* Syscall, a Block argument: one cell per statement from current_pos on;
\* returns <<compiler, current_pos>>
SyscallBlockArg(st, statements, current_pos) ==
    IF statements = <<>> \/ st.error # "" THEN <<st, current_pos>>
    ELSE LET stmt == Head(statements)
             st1 == Emit(MoveTo(st, current_pos), CLEAR)
             st2 == IF stmt.tag = "Number"
                    THEN (IF stmt.n > 0 THEN EmitPlus(st1, stmt.n) ELSE st1)
                    ELSE Compile(st1, stmt)
         IN SyscallBlockArg(st2, Tail(statements), current_pos + 1)

\* Syscall: the loop over the arguments from current_pos on
SyscallArgs(st, args, current_pos) ==
    IF args = <<>> \/ st.error # "" THEN st
    ELSE LET arg == Head(args) IN
         CASE arg.tag = "Number" /\ arg.n = 0 ->
                SyscallArgs(st, Tail(args), current_pos + 1)
           [] arg.tag = "Block" ->
                LET r == SyscallBlockArg(st, arg.statements, current_pos)
                IN SyscallArgs(r[1], Tail(args), r[2])
           [] arg.tag = "Variable" ->
                IF arg.name \notin DOMAIN st.variables
                THEN [st EXCEPT !.error = "Variable not found"]
                ELSE LET var_loc == st.variables[arg.name]
                         st1 == Emit(MoveTo(st, current_pos), CLEAR)
                         st2 == Emit(MoveTo(st1, var_loc), COPY \o MOVE_RIGHT \o COPY \o ADD_LEFT)
                     IN SyscallArgs(st2, Tail(args), current_pos + 1)
           [] arg.tag = "Number" /\ arg.n # 0 ->
                LET st1 == Emit(MoveTo(st, current_pos), CLEAR)
                    st2 == IF arg.n > 0 THEN EmitPlus(st1, arg.n) ELSE st1
                IN SyscallArgs(st2, Tail(args), current_pos + 1)
           [] OTHER ->
                LET st1 == Emit(MoveTo(st, current_pos), CLEAR)
                IN SyscallArgs(Compile(st1, arg), Tail(args), current_pos + 1)

\* BFLCompiler::compile; the compiler after the call, error set when it
\* returned Err (or panicked)
Compile(st, node) ==
    IF st.error # "" THEN st
    ELSE CASE node.tag = "Number" -> EmitPlus(Emit(st, CLEAR), node.n)
           [] node.tag = "String" -> StoreCells(st, [i \in 1..Len(node.s) |-> CharAsU8(node.s[i])])
           [] node.tag = "Bytes" -> StoreCells(st, node.bytes)
           [] node.tag = "Variable" ->
                LET st1 == AllocateVariable(st, node.name)
                IN MoveTo(st1, VarLocation(st1, node.name))
           [] node.tag = "Assign" ->
                LET st0 == AllocateVariable(st, node.name)
                    location == VarLocation(st0, node.name)
                    expr == node.expr
                IN CASE expr.tag = "String" ->
                          LET str_start == location + 1
                              st1 == EmitPlus(Emit(MoveTo(st0, location), CLEAR), str_start)
                              st2 == StoreCells(MoveTo(st1, str_start),
                                                [i \in 1..Len(expr.s) |-> CharAsU8(expr.s[i])])
                          IN SetNextVarLocation(st2, str_start + StrLen(expr.s) + 1)
                     [] expr.tag = "Bytes" ->
                          LET bytes_start == location + 1
                              st1 == EmitPlus(Emit(MoveTo(st0, location), CLEAR), bytes_start)
                              st2 == StoreCells(MoveTo(st1, bytes_start), expr.bytes)
                          IN SetNextVarLocation(st2, bytes_start + Len(expr.bytes) + 1)
                     [] expr.tag = "Block" ->
                          LET data_start == location + 1
                              st1 == EmitPlus(Emit(MoveTo(st0, location), CLEAR), data_start)
                              st2 == AssignBlockStatements(st1, data_start, expr.statements, 0)
                          IN SetNextVarLocation(st2, data_start + Len(expr.statements) + 1)
                     [] OTHER ->
                          Compile(Emit(MoveTo(st0, location), CLEAR), expr)
           [] node.tag = "Add" ->
                IF node.left.tag = "Variable" /\ node.right.tag = "Number"
                THEN LET st1 == AllocateVariable(st, node.left.name)
                         st2 == Emit(MoveTo(st1, VarLocation(st1, node.left.name)), COPY)
                     IN Emit(EmitPlus(st2, node.right.n), MOVE_RIGHT)
                ELSE Compile(Emit(Compile(st, node.left), COPY), node.right)
           [] node.tag = "Sub" ->
                IF node.left.tag = "Variable"
                THEN LET st1 == AllocateVariable(st, node.left.name)
                         st2 == Emit(MoveTo(st1, VarLocation(st1, node.left.name)),
                                     COPY \o MOVE_RIGHT)
                     IN Emit(Compile(st2, node.right), SUB_LEFT)
                ELSE Emit(Compile(Emit(Compile(st, node.left), COPY), node.right), SUB_LEFT)
           [] node.tag = "If" ->
                Emit(CompileAll(Emit(Compile(st, node.condition), <<"[">>), node.body), <<"]">>)
           [] node.tag = "While" ->
                LET start_pos == CurrentPosition(st)
                    st1 == Emit(Compile(st, node.condition), <<"[">>)
                    st2 == CompileAll(st1, node.body)
                IN Emit(MoveTo(st2, start_pos), <<"]">>)
           [] node.tag = "Syscall" ->
                LET start_pos == CurrentPosition(st)
                    ClearArea[i \in 1..8] ==
                        IF i = 1 THEN Emit(MoveTo(st, 1), CLEAR)
                        ELSE IF i = 8 THEN MoveTo(ClearArea[7], 7)
                        ELSE Emit(MoveTo(ClearArea[i - 1], i), CLEAR)
                    st1 == ClearArea[8]
                    st2 == IF node.number.tag = "Number"
                           THEN (IF node.number.n > 0 THEN EmitPlus(st1, node.number.n) ELSE st1)
                           ELSE Compile(st1, node.number)
                    st3 == SyscallArgs(st2, node.args, 1)
                IN MoveTo(Emit(MoveTo(st3, 7), <<".">>), start_pos)
           [] node.tag = "Block" -> CompileAll(st, node.statements)


\* ---------------------------------------------------------------- programs
Alphabet == {">", "<", "+", "-", ".", ",", "[", "]", "x"}

\* every text of at most MaxLen characters
SmallPrograms == UNION {[1..n -> Alphabet] : n \in 0..MaxLen}

\* n copies of one character
Rep(ch, n) == [i \in 1..n |-> ch]

\* texts with loops that run, nest and are skipped (test_loop of bf.rs among them)
LoopPrograms ==
    { <<"+", "+", "+", "[", ">", "+", "<", "-", "]", ">", ".">>,
      <<"+", "+", "[", ">", "+", "[", "-", "]", "<", "-", "]">>,
      <<"[", ">", "[", "-", "]", "<", "]", "+">>,
      <<"+", "[", "[", "-", "]", "]", ",">>,
      <<"+", "[", ">", "[", "x", "]", "<", "-", "]", "-">>,
      <<"x", "+", "[", "-", "[", "[", "]", "+", "]", "]">>,
      <<"-", "[", "+", "[", "]", "]", "[", "[", "]", "]">>,
      <<"+", "[", ">", "+", "]">>,
      <<"[", "]", "+", "+", "[", "-", "]">> }

\* a text that puts a0, a1, a2 in cells 1..3 and num in cell 7, then traps
TrapProgram(num, a0, a1, a2) ==
    <<">">> \o Rep("+", a0) \o <<">">> \o Rep("+", a1) \o <<">">> \o Rep("+", a2)
    \o <<">", ">", ">", ">">> \o Rep("+", num) \o <<".">>

\* syscall numbers tried: those of the gateway, of the test-mode range,
\* numbers of the platform tables and numbers it does not know
TrapNums == {0, 1, 2, 8, MacosSyscalls.accept, SYS_READ, SYS_WRITE, SYS_ACCEPT_OLD, SYS_CLOSE,
             SYS_ACCEPT, SYS_SOCKET, SYS_BIND, SYS_LISTEN}

TrapPrograms ==
    {TrapProgram(num, a0, a1, a2) :
        num \in TrapNums, a0 \in {0, 1}, a1 \in {0, 4, 8, TapeLen}, a2 \in {0, 3, 8}}
    \* a write whose buffer begins with a cell holding 2^32 - 1
    \cup {<<"-">> \o TrapProgram(SYS_WRITE, 1, 0, 3)}

Inputs == {<<>>, <<65>>}

\* the marker of a run on raw text
Text == [tag |-> "Text"]

\* BF::new(code, mode)
New(c, md) ==
    /\ cells = ZeroTape
    /\ ptr = 0
    /\ code = c
    /\ pc = 0
    /\ output = <<>>
    /\ mode = md
    /\ status = "new"
    /\ err = Ok
    /\ hostCalls = <<>>
    /\ steps = 0

Init ==
    /\ \/ /\ \E c \in SmallPrograms \cup LoopPrograms, md \in {"BF", "BFA"} : New(c, md)
          /\ stdin \in Inputs
       \/ /\ \E c \in TrapPrograms : New(c, "BFA")
          /\ stdin = <<>>
    /\ testBuild \in BOOLEAN
    /\ compiler = NewCompiler
    /\ tree = Text

\* ------------------------------------------------------------------ BF::run
\* run(), up to the loop: the bracket pre-scan
Run_Validate ==
    /\ status = "new"
    /\ LET r == ValidateBrackets(code) IN
       /\ status' = IF r = Ok THEN "running" ELSE "err"
       /\ err' = r
    /\ UNCHANGED <<cells, ptr, code, pc, output, mode, stdin, hostCalls, testBuild,
                   steps, compiler, tree>>

\* What one iteration of the loop leaves: the handler's machine, then
\* self.pc += 1 when it returned Ok, the error (or the panic) otherwise.
Finish(r, calls) ==
    /\ cells' = r.m.cells
    /\ ptr' = r.m.ptr
    /\ output' = r.m.output
    /\ stdin' = r.m.stdin
    /\ pc' = IF r.res = Ok THEN r.m.pc + 1 ELSE r.m.pc
    /\ status' = IF r.res = Ok THEN "running"
                 ELSE IF r.res.kind = "Panic" THEN "panic" ELSE "err"
    /\ err' = r.res
    /\ hostCalls' = hostCalls \o calls
    /\ steps' = steps + 1
    /\ UNCHANGED <<code, mode, testBuild, compiler, tree>>

InLoop == status = "running" /\ pc < Len(code) /\ steps < MaxSteps

\* one iteration in Mode::BF
Run_ExecuteBf ==
    /\ InLoop
    /\ mode = "BF"
    /\ \E flushOk \in IF code[pc + 1] = "." THEN BOOLEAN ELSE {TRUE},
          overflowChecks \in IF code[pc + 1] = "]" THEN BOOLEAN ELSE {TRUE} :
          Finish(ExecuteBf(code, Machine, flushOk, overflowChecks), <<>>)

\* one iteration in Mode::BFA on an instruction other than '.'
Run_ExecuteBfa ==
    /\ InLoop
    /\ mode = "BFA"
    /\ code[pc + 1] # "."
    /\ \E overflowChecks \in IF code[pc + 1] = "]" THEN BOOLEAN ELSE {TRUE} :
          Finish(ExecuteBfaOther(code, Machine, overflowChecks), <<>>)

\* one iteration in Mode::BFA on '.': the syscall trap
Run_Trap ==
    /\ InLoop
    /\ mode = "BFA"
    /\ code[pc + 1] = "."
    /\ \E host \in HostAnswers(cells[7], [i \in 0..5 |-> cells[i + 1]]), flushOk \in BOOLEAN :
          LET r == SyscallTrap(Machine, testBuild, host, flushOk)
          IN Finish(r, r.calls)

\* the loop ends: Ok(())
Run_Return ==
    /\ status = "running"
    /\ pc >= Len(code)
    /\ status' = "ok"
    /\ UNCHANGED <<cells, ptr, code, pc, output, mode, err, stdin, hostCalls, testBuild,
                   steps, compiler, tree>>

Next == Run_Validate \/ Run_ExecuteBf \/ Run_ExecuteBfa \/ Run_Trap \/ Run_Return

Spec == Init /\ [][Next]_vars


\* ------------------------------------------------- compiled SIL programs
\* scenario 2 of the spec / test_bfl_loop, with the loop count k
CounterTree(k) ==
    Block(<<Assign("x", Number(0)),
            Assign("i", Number(k)),
            While(Variable("i"),
                  <<Assign("x", Add(Variable("x"), Number(1))),
                    Assign("i", Sub(Variable("i"), Number(1)))>>)>>)

\* scenario 3 of the spec / test_bfl_if: x = c, then If(x, [y = n])
IfTree(c, n) ==
    Block(<<Assign("x", Number(c)),
            If(Variable("x"), <<Assign("y", Number(n))>>)>>)

\* test_bfl_sub and test_bfl_add
SubTree(a, b) == Assign("v", Sub(Number(a), Number(b)))
AddTree(a, b) == Assign("v", Add(Number(a), Number(b)))

\* test_socket_syscall: a syscall on literals
SyscallTree(num, a0, a1, a2) ==
    Syscall(Number(num), <<Number(a0), Number(a1), Number(a2)>>)

\* y = x after x = n
CopyTree(n) ==
    Block(<<Assign("x", Number(n)), Assign("y", Variable("x"))>>)

\* test_bfl_simple_assignment: v = n
AssignTree(n) == Assign("v", Number(n))

\* v = m, then v = n: the second assignment finds m in the cell
AssignTwiceTree(m, n) ==
    Block(<<Assign("v", Number(m)), Assign("v", Number(n))>>)

\* the literals assigned: the small ones and the largest byte value
Literals == (0..MaxNum) \cup {255}

\* the literals below zero that are assigned
NegativeLiterals == {0 - 1, 0 - MaxNum}

\* test_syscall_bytes: v = the bytes b
BytesTree(b) == Assign("v", Bytes(b))

\* test_string_storage: v = the string s (a sequence of code points)
StringTree(s) == Assign("v", String(s))

\* the byte strings stored: up to two values, each at most MaxNum
ByteStrings == UNION {[1..n -> 0..MaxNum] : n \in 0..2}

\* the strings stored: "", "A", "AB" and "A~"
AsciiStrings == {<<>>, <<65>>, <<65, 66>>, <<65, 126>>}

\* strings with a character outside ASCII: "\u{e9}" and "A\u{100}"
NonAsciiStrings == {<<233>>, <<65, 256>>}

\* msg = p, then a syscall on (a0, msg, a2)
SyscallVarTree(num, a0, p, a2) ==
    Block(<<Assign("msg", Number(p)),
            Syscall(Number(num), <<Number(a0), Variable("msg"), Number(a2)>>)>>)

\* a syscall handed seven arguments, the last one a6
SevenArgsTree(num, a6) ==
    Syscall(Number(num), <<Number(1), Number(0), Number(0), Number(0), Number(0),
                           Number(0), Number(a6)>>)

Trees ==
    {CounterTree(k) : k \in 0..MaxNum}
    \cup {IfTree(c, n) : c \in 0..MaxNum, n \in 0..MaxNum}
    \cup {SubTree(a, b) : a \in 0..MaxNum, b \in 0..MaxNum}
    \cup {AddTree(a, b) : a \in 0..MaxNum, b \in 0..MaxNum}
    \cup {SyscallTree(num, 1, a1, a2) : num \in {2, SYS_WRITE}, a1 \in {0, 8}, a2 \in {0, 1}}
    \cup {CopyTree(n) : n \in 0..MaxNum}
    \cup {AssignTree(n) : n \in Literals \cup NegativeLiterals}
    \cup {AssignTwiceTree(m, n) : m \in 0..MaxNum, n \in 0..MaxNum}
    \cup {BytesTree(b) : b \in ByteStrings}
    \cup {StringTree(s) : s \in AsciiStrings \cup NonAsciiStrings}
    \cup {SyscallVarTree(num, 1, p, a2) : num \in {2, SYS_WRITE}, p \in 0..MaxNum, a2 \in {0, 1}}
    \cup {SevenArgsTree(num, a6) : num \in {2, SYS_WRITE}, a6 \in 1..MaxNum}

\* compile(&program) did not return Ok: no interpreter is made, and the
\* program ends on the panic (of compile itself or of unwrap on the Err)
CompileFailed ==
    /\ cells = ZeroTape
    /\ ptr = 0
    /\ code = <<>>
    /\ pc = 0
    /\ output = <<>>
    /\ mode = "BFA"
    /\ status = "panic"
    /\ err = Panic(compiler.error)
    /\ hostCalls = <<>>
    /\ steps = 0

\* compile(&program).unwrap(); BF::new(compiler.get_output(), mode)
InitBFL ==
    /\ tree \in Trees
    /\ compiler = Compile(NewCompiler, tree)
    /\ IF compiler.error = ""
       THEN \E md \in {"BF", "BFA"} : New(compiler.output, md)
       ELSE CompileFailed
    /\ stdin = <<>>
    /\ testBuild \in BOOLEAN

SpecBFL == InitBFL /\ [][Next]_vars


\* ------------------------------------------- one compiler, many compiles
\* the statements handed to compile(), one call each
Statements ==
    {Assign(name, Number(0)) : name \in {"x", "y", "z", "w"}}
    \cup {Assign("x", Bytes(<<>>)),
          Assign("y", Variable("u")),
          Assign("x", String(<<65>>)),
          Variable("_syscall_result"),
          Assign("fd", Variable("_syscall_result"))}

\* BFLCompiler::new(); tree is the sequence of statements compiled so far
InitCompile ==
    /\ compiler = NewCompiler
    /\ tree = Block(<<>>)
    /\ New(<<>>, "BFA")
    /\ stdin = <<>>
    /\ testBuild = FALSE

\* compiler.compile(&node) returning Ok(())
CompileStep ==
    /\ Len(tree.statements) < MaxCompiles
    /\ \E node \in Statements :
          /\ Compile(compiler, node).error = ""
          /\ compiler' = Compile(compiler, node)
          /\ tree' = Block(Append(tree.statements, node))
    /\ UNCHANGED <<cells, ptr, code, pc, output, mode, status, err, stdin,
                   hostCalls, testBuild, steps>>

NextCompile == CompileStep

SpecCompile == InitCompile /\ [][NextCompile]_vars

\* ================================================================== claims
\* the number of '[' minus the number of ']' among the first n characters
DepthOfPrefix(c, n) ==
    Cardinality({i \in 1..n : c[i] = "["}) - Cardinality({i \in 1..n : c[i] = "]"})

\* some prefix has more ']' than '[', or the totals differ
Unbalanced(c) ==
    \/ \E n \in 1..Len(c) : DepthOfPrefix(c, n) < 0
    \/ DepthOfPrefix(c, Len(c)) # 0

\* C1: once run() has looked at a text whose brackets do not balance, it has
\* returned BracketMismatch and the tape, the pointer, the program counter
\* and the output are as BF::new left them; no instruction was executed.
C1_BracketMismatchBeforeExecution ==
    (Unbalanced(code) /\ status # "new") =>
        /\ status = "err"
        /\ err.kind = "BracketMismatch"
        /\ cells = ZeroTape
        /\ ptr = 0
        /\ pc = 0
        /\ output = <<>>
        /\ hostCalls = <<>>
        /\ steps = 0

\* a text with as many ']' as '[' but a prefix that closes too early was
\* rejected
C1_Witness ==
    /\ status = "err"
    /\ err.kind = "BracketMismatch"
    /\ Len(code) >= 2
    /\ DepthOfPrefix(code, Len(code)) = 0
    /\ \E n \in 1..Len(code) : DepthOfPrefix(code, n) < 0

\* the machine is about to execute the instruction at pc
AtInstruction(ins) == InLoop /\ code[pc + 1] = ins

\* the machine is about to execute a '.' in extended mode
AtTrap == mode = "BFA" /\ AtInstruction(".")

\* C2: a syscall trap that succeeds leaves the host call's result in cell 0.
C2_ResultInCell0 ==
    [][(AtTrap /\ Len(hostCalls') = Len(hostCalls) + 1 /\ status' = "running")
         => cells'[0] = hostCalls'[Len(hostCalls')].ret]_vars

\* C3: in a test build a trap on SOCKET, BIND, LISTEN, ACCEPT or CLOSE fails
\* with InvalidSyscall, makes no host call and leaves the tape alone.
C3_TestModeDeniesSocketClass ==
    [][(testBuild /\ AtTrap /\ steps' = steps + 1
        /\ cells[7] \in {SYS_SOCKET, SYS_BIND, SYS_LISTEN, SYS_ACCEPT, SYS_ACCEPT_OLD, SYS_CLOSE})
         => /\ status' = "err"
            /\ err'.kind = "InvalidSyscall"
            /\ hostCalls' = hostCalls
            /\ cells' = cells]_vars

\* C4: in a test build a trap on READ or WRITE is not denied: it ends in the
\* buffer check's error or in a host call.
C4_TestModePermitsReadWrite ==
    [][(testBuild /\ AtTrap /\ steps' = steps + 1 /\ cells[7] \in {SYS_READ, SYS_WRITE})
         => \/ (status' = "err" /\ err'.kind = "MemoryAccess")
            \/ Len(hostCalls') = Len(hostCalls) + 1]_vars

\* C5: in extended mode every instruction other than '.' does what
\* execute_bf does on the same machine (',' included).
C5_OtherInstructionsAsBaseMode ==
    [][(mode = "BFA" /\ InLoop /\ code[pc + 1] # "." /\ steps' = steps + 1)
         => \E overflowChecks \in BOOLEAN :
               LET r == ExecuteBf(code, Machine, TRUE, overflowChecks) IN
               /\ cells' = r.m.cells
               /\ ptr' = r.m.ptr
               /\ stdin' = r.m.stdin
               /\ output' = r.m.output
               /\ err' = r.res
               /\ pc' = IF r.res = Ok THEN r.m.pc + 1 ELSE r.m.pc]_vars

\* the nesting depth of index p: the '[' minus the ']' before it
DepthAt(c, p) == DepthOfPrefix(c, p)

\* the ']' matching the '[' at index p: the first ']' after p that closes
\* the depth p opened
MatchingClose(c, p) ==
    CHOOSE q \in (p + 1)..(Len(c) - 1) :
        /\ c[q + 1] = "]"
        /\ DepthAt(c, q + 1) = DepthAt(c, p)
        /\ \A r \in (p + 1)..(q - 1) : ~(c[r + 1] = "]" /\ DepthAt(c, r + 1) = DepthAt(c, p))

\* the '[' matching the ']' at index q: the last '[' before q at q's depth
MatchingOpen(c, q) ==
    CHOOSE p \in 0..(q - 1) :
        /\ c[p + 1] = "["
        /\ DepthAt(c, p) = DepthAt(c, q + 1)
        /\ \A r \in (p + 1)..(q - 1) : ~(c[r + 1] = "[" /\ DepthAt(c, r) = DepthAt(c, q + 1))

\* a step of the run loop on a bracket, with where it must continue
BracketStep(afterClose, afterOpen) ==
    (InLoop /\ steps' = steps + 1 /\ code[pc + 1] \in {"[", "]"}) =>
        /\ cells' = cells
        /\ ptr' = ptr
        /\ status' = "running"
        /\ pc' = IF code[pc + 1] = "[" /\ cells[ptr] = 0
                 THEN MatchingClose(code, pc) + afterClose
                 ELSE IF code[pc + 1] = "]" /\ cells[ptr] # 0
                      THEN MatchingOpen(code, pc) + afterOpen
                      ELSE pc + 1

\* C6 (as claimed): '[' on a zero cell continues just past the matching ']',
\* ']' on a nonzero cell continues just past the matching '[', otherwise the
\* next instruction; tape and pointer unchanged.
C6_JumpsPastBothBrackets == [][BracketStep(1, 1)]_vars

\* C6 (amended): '[' on a zero cell continues just past the matching ']';
\* ']' on a nonzero cell continues at the matching '[' itself (which, the
\* cell being nonzero, falls through to the instruction after it); otherwise
\* the next instruction; tape and pointer unchanged.
C6_JumpsPastCloseOntoOpen == [][BracketStep(1, 0)]_vars

\* a ']' has jumped back over a nested pair: the machine is on a '[' that
\* encloses another '[', on a nonzero cell, after more steps than a run
\* without a backward jump takes to get there
C6_Witness ==
    /\ AtInstruction("[")
    /\ cells[ptr] # 0
    /\ steps > pc
    /\ \E q \in (pc + 1)..(MatchingClose(code, pc) - 1) : code[q + 1] = "["

\* the run of a compiled tree in extended mode
RunsCompiled(t) == tree = t /\ mode = "BFA"

\* run() has returned an error or panicked
Failed == status = "err" \/ status = "panic"

\* C7: the counter program with loop count k >= 1 runs without an error,
\* the j-th execution of the loop body ends with x = j and i = k - j for
\* some j in 1..k, and the run ends with x = k and i = 0.
C7_CounterLoopTerminates ==
    \A k \in 1..MaxNum :
        RunsCompiled(CounterTree(k)) =>
            LET x == cells[VarLocation(compiler, "x")]
                i == cells[VarLocation(compiler, "i")]
            IN /\ ~Failed
               /\ (status = "running" /\ pc = Len(code) - 1) => (x \in 1..k /\ i = k - x)
               /\ status = "ok" => (x = k /\ i = 0)

\* C8: If(x, [y = n]) with x = c runs without an error and ends with y = n
\* when c is nonzero and with y untouched when c is zero.
C8_IfRunsBodyOnce ==
    \A c \in 0..MaxNum, n \in 0..MaxNum :
        RunsCompiled(IfTree(c, n)) =>
            /\ ~Failed
            /\ status = "ok" =>
                  cells[VarLocation(compiler, "y")] = (IF c # 0 THEN n ELSE 0)

\* C9: v = Sub(a, b) ends with max(a - b, 0) in the cell of v.
C9_ClampedSubtraction ==
    \A a \in 0..MaxNum, b \in 0..MaxNum :
        (RunsCompiled(SubTree(a, b)) /\ status = "ok") =>
            cells[VarLocation(compiler, "v")] = (IF a > b THEN a - b ELSE 0)

\* C10: v = Add(a, b) ends with a + b in the cell of v.
C10_AdditionOfLiterals ==
    \A a \in 0..MaxNum, b \in 0..MaxNum :
        (RunsCompiled(AddTree(a, b)) /\ status = "ok") =>
            cells[VarLocation(compiler, "v")] = a + b


\* C11: after x = n; y = x the cells of y and of x both hold n.
C11_VariableReadCopies ==
    \A n \in 0..MaxNum :
        (RunsCompiled(CopyTree(n)) /\ status = "ok") =>
            /\ cells[VarLocation(compiler, "y")] = n
            /\ cells[VarLocation(compiler, "x")] = n

\* C12: after v = n the cell of v holds n, for a literal n up to 255 and
\* whatever the cell held before (nothing, or the m of an earlier v = m),
\* and the run returns Ok.
C12_LiteralRoundTrip ==
    /\ \A n \in Literals :
          RunsCompiled(AssignTree(n)) =>
              /\ ~Failed
              /\ status = "ok" => cells[VarLocation(compiler, "v")] = n
    /\ \A m \in 0..MaxNum, n \in 0..MaxNum :
          RunsCompiled(AssignTwiceTree(m, n)) =>
              /\ ~Failed
              /\ status = "ok" => cells[VarLocation(compiler, "v")] = n

\* v = m then v = n with m > n > 0 has run to its end and v holds n
C12_Witness ==
    \E m \in 1..MaxNum, n \in 1..MaxNum :
        /\ m > n
        /\ RunsCompiled(AssignTwiceTree(m, n))
        /\ status = "ok"
        /\ cells[VarLocation(compiler, "v")] = n


\* C13: on one compiler, after any sequence of successful compiles, two
\* different names are bound to two different cells, each at index 8 or more.
C13_DistinctCellsFrom8 ==
    \A a \in DOMAIN compiler.variables, b \in DOMAIN compiler.variables :
        /\ compiler.variables[a] >= 8
        /\ a # b => compiler.variables[a] # compiler.variables[b]

\* C14: in every compiler, from construction on, the name _syscall_result
\* is bound, and bound to cell 0.
C14_SyscallResultIsCell0 ==
    /\ "_syscall_result" \in DOMAIN compiler.variables
    /\ compiler.variables["_syscall_result"] = 0


\* C15: when the '.' compiled for Syscall(num, args) executes, cell 7 holds
\* num and cell i+1 holds args[i]: the literal for a Number, and for a
\* Variable the value of its cell (here the p of msg = p), which is still
\* in that cell.
C15_SyscallArgumentCells ==
    (mode = "BFA" /\ AtInstruction(".")) =>
        /\ \A num \in {2, SYS_WRITE}, a1 \in {0, 8}, a2 \in {0, 1} :
              tree = SyscallTree(num, 1, a1, a2) =>
                  cells[7] = num /\ cells[1] = 1 /\ cells[2] = a1 /\ cells[3] = a2
        /\ \A num \in {2, SYS_WRITE}, p \in 0..MaxNum, a2 \in {0, 1} :
              tree = SyscallVarTree(num, 1, p, a2) =>
                  /\ cells[7] = num
                  /\ cells[1] = 1
                  /\ cells[2] = p
                  /\ cells[VarLocation(compiler, "msg")] = p
                  /\ cells[3] = a2

\* the cells from index from on hold the values of the sequence, in order
CellsHold(from, values) ==
    \A k \in 1..Len(values) : cells[from + k - 1] = values[k]

RecognizedSyscalls ==
    {SYS_READ, SYS_WRITE, SYS_SOCKET, SYS_BIND, SYS_LISTEN, SYS_ACCEPT, SYS_CLOSE}

C18_BufferCheckIsSumOnly ==
    [][(~testBuild /\ AtTrap /\ steps' = steps + 1 /\ cells[7] \in {SYS_READ, SYS_WRITE}
        /\ cells[2] >= 0 /\ cells[3] >= 0)
         => IF cells[2] + cells[3] <= TapeLen
            THEN Len(hostCalls') = Len(hostCalls) + 1
            ELSE /\ status' = "err"
                 /\ err'.kind = "MemoryAccess"
                 /\ hostCalls' = hostCalls
                 /\ cells' = cells]_vars


\* a step of the run loop on '<' at index 0 or on '>' at the last cell, with
\* where the pointer must be after it
MoveOffTape(afterRight) ==
    (InLoop /\ steps' = steps + 1
     /\ \/ (code[pc + 1] = "<" /\ ptr = 0)
        \/ (code[pc + 1] = ">" /\ ptr = TapeLen - 1)) =>
        /\ status' = "err"
        /\ err'.kind = "MemoryAccess"
        /\ cells' = cells
        /\ output' = output
        /\ ptr' = IF code[pc + 1] = "<" THEN 0 ELSE afterRight

\* C19 (as claimed): '<' at index 0 and '>' on the last cell fail with
\* MemoryAccess, the pointer does not move and the tape is unchanged.
C19_FailsWithoutMoving == [][MoveOffTape(TapeLen - 1)]_vars

\* C19 (amended): '<' at index 0 and '>' on the last cell fail with
\* MemoryAccess and the tape is unchanged; after the failed '<' the pointer
\* is still 0, after the failed '>' it is the tape length, one past the
\* last cell.
C19_FailsWithPointerPastEnd == [][MoveOffTape(TapeLen)]_vars

\* a '>' on the last cell has failed, the cell it left still holding
\* what the program put there
C19_Witness ==
    /\ status = "err"
    /\ err.kind = "MemoryAccess"
    /\ pc < Len(code)
    /\ code[pc + 1] = ">"
    /\ ptr = TapeLen
    /\ cells[TapeLen - 1] # 0


\* the upper and the lower 16 bits of the u32 a cell holds
U32Hi(v) == IF v >= 0 THEN v \div 65536 ELSE 32768 + ((v - I32Min) \div 65536)
U32Lo(v) == IF v >= 0 THEN v % 65536 ELSE (v - I32Min) % 65536

\* w is v + 1 modulo 2^32, on the two halves
IsSuccessorMod2_32(v, w) ==
    IF U32Lo(v) = 65535
    THEN U32Lo(w) = 0 /\ U32Hi(w) = (U32Hi(v) + 1) % 65536
    ELSE U32Lo(w) = U32Lo(v) + 1 /\ U32Hi(w) = U32Hi(v)

\* C20: '+' and '-' never fail; '+' leaves the pointed cell one more and
\* '-' one less modulo 2^32 (2^32 - 1 goes to 0, 0 goes to 2^32 - 1); every
\* other cell, the pointer and the output are unchanged.
C20_WrappingCells ==
    [][(InLoop /\ steps' = steps + 1 /\ code[pc + 1] \in {"+", "-"})
         => /\ status' = "running"
            /\ pc' = pc + 1
            /\ ptr' = ptr
            /\ output' = output
            /\ \A i \in 0..(TapeLen - 1) : i # ptr => cells'[i] = cells[i]
            /\ IF code[pc + 1] = "+"
               THEN IsSuccessorMod2_32(cells[ptr], cells'[ptr])
               ELSE IsSuccessorMod2_32(cells'[ptr], cells[ptr])]_vars

\* "-+" has run: the cell went from 0 to 2^32 - 1 and back to 0
C20_Witness ==
    /\ Len(code) >= 2
    /\ code[1] = "-"
    /\ code[2] = "+"
    /\ pc = 2
    /\ steps = 2
    /\ status = "running"
    /\ cells[0] = 0

ReadsOf(node) ==
    IF node.tag = "Variable" THEN {node.name}
    ELSE IF node.tag = "Assign" /\ node.expr.tag = "Variable" THEN {node.expr.name}
    ELSE {}

\* the names assigned by the first n statements
AssignedBy(statements, n) ==
    {statements[i].name : i \in {j \in 1..n : statements[j].tag = "Assign"}}

\* C23: compile never returns Ok for a statement that reads a variable no
\* earlier statement assigned, and only assigned names own a cell.
C23_UnassignedReadRejected ==
    /\ \A i \in 1..Len(tree.statements) :
          ReadsOf(tree.statements[i]) \subseteq AssignedBy(tree.statements, i - 1)
    /\ DOMAIN compiler.variables \subseteq AssignedBy(tree.statements, Len(tree.statements))

\* C24: no Syscall with more than six arguments compiles, and at the trap
\* cell 7 still holds the syscall number: arguments went to cells 1..6 only.
C24_TooManyArgsRejected ==
    tree.tag = "Syscall" =>
        /\ Len(tree.args) <= 6
        /\ (AtTrap => cells[7] = tree.number.n)

\* the eight instruction characters
Instructions == {">", "<", "+", "-", ".", ",", "[", "]"}

\* the text with every character that is no instruction taken out
StripComments(c) == SelectSeq(c, LAMBDA ch : ch \in Instructions)

\* how many of the first p characters of the text are instructions: the
\* place in StripComments(code) that place p of code corresponds to
Skipped(p) == Cardinality({i \in 1..p : code[i] \in Instructions})

\* what one iteration of the loop can do to machine m on text c
Outcomes(c, m) ==
    IF mode = "BF"
    THEN {ExecuteBf(c, m, flushOk, overflowChecks) : flushOk \in BOOLEAN, overflowChecks \in BOOLEAN}
    ELSE IF c[m.pc + 1] # "."
    THEN {ExecuteBfaOther(c, m, overflowChecks) : overflowChecks \in BOOLEAN}
    ELSE {[m |-> r.m, res |-> r.res] :
            r \in {SyscallTrap(m, testBuild, host, flushOk) :
                     host \in HostAnswers(m.cells[7], [i \in 0..5 |-> m.cells[i + 1]]),
                     flushOk \in BOOLEAN}}

\* C25: in both modes a character other than the eight instructions only
\* advances the program counter (tape, pointer, output, input and host calls
\* stay), and every step on an instruction is a step the text without those
\* characters can take from the corresponding place, so inserting them does
\* not change the result.
C25_OtherCharactersOnlyAdvance ==
    [][(InLoop /\ steps' = steps + 1)
         => IF code[pc + 1] \notin Instructions
            THEN /\ pc' = pc + 1
                 /\ status' = "running"
                 /\ cells' = cells
                 /\ ptr' = ptr
                 /\ output' = output
                 /\ stdin' = stdin
                 /\ hostCalls' = hostCalls
            ELSE \E r \in Outcomes(StripComments(code), [Machine EXCEPT !.pc = Skipped(pc)]) :
                    /\ cells' = r.m.cells
                    /\ ptr' = r.m.ptr
                    /\ output' = r.m.output
                    /\ stdin' = r.m.stdin
                    /\ err' = r.res
                    /\ (status' = "running") = (r.res = Ok)
                    /\ Skipped(pc') = (IF r.res = Ok THEN r.m.pc + 1 ELSE r.m.pc)]_vars

\* extended mode has stepped over an "x" with a cell already counted up, and
\* went on to execute the instruction after it
C25_Witness ==
    /\ mode = "BFA"
    /\ Len(code) = 3
    /\ code[1] = "+"
    /\ code[2] = "x"
    /\ code[3] = "+"
    /\ pc = 3
    /\ steps = 3
    /\ cells[0] = 2
    /\ status = "running"

\* C26: when the run of a compiled tree ends, the pointer is where the
\* compiler's shadow pointer stood after emitting the tree, whether an If or
\* While body was skipped or executed.
C26_ShadowPointerAgrees ==
    status = "ok" => ptr = CurrentPosition(compiler)

\* C27: the code of Assign(name, expr) leaves the reserved cells 0..7 alone:
\* after a run that only assigned, with no syscall made, they hold 0 as
\* BF::new left them.
C27_AssignKeepsReservedCells ==
    (tree.tag = "Assign" /\ status = "ok") => \A i \in 0..7 : cells[i] = 0

\* C28 as stated: in every state of the run, the state an error leaves
\* included, the pointer is an index of the tape.
C28_PointerAlwaysInTape ==
    0 <= ptr /\ ptr < TapeLen

\* C28: the pointer is an index of the tape in every state of the run in
\* which run() has not failed, so every cell access at the pointer is in
\* range; it is never negative and never beyond the tape length, and it
\* equals the tape length only in the state a failed '>' leaves behind.
C28_PointerInTapeUntilFailure ==
    /\ 0 <= ptr
    /\ ptr <= TapeLen
    /\ (status # "err" => ptr < TapeLen)
    /\ (ptr = TapeLen => /\ err.kind = "MemoryAccess"
                         /\ code[pc + 1] = ">"
                         /\ steps > 0)

\* base mode walked to the last cell, wrote it, and the next '>' failed
C28_Witness ==
    /\ mode = "BF"
    /\ status = "err"
    /\ err.kind = "MemoryAccess"
    /\ ptr = TapeLen
    /\ cells[TapeLen - 1] = 1
    /\ steps >= 3 * TapeLen

\* C29: the text compile returned Ok for is bracket-balanced, and run()
\* never answers BracketMismatch on it, neither in its scan before the
\* first instruction nor while executing.
C29_CompiledTextBalanced ==
    /\ status = "new" => ~Unbalanced(code)
    /\ ~(status = "err" /\ err.kind = "BracketMismatch")

\* the counting loop, whose While body holds the loops of Add and Sub, was
\* compiled, passed the scan and ran to the end
C29_Witness ==
    /\ tree = CounterTree(0)
    /\ status = "ok"
    /\ \E n \in 1..Len(code) : DepthOfPrefix(code, n) >= 2

\* C30: once the scan of run() has accepted a text, the forward scan from
\* any '[' stops on the ']' matched with it at the same nesting depth and the
\* backward scan from any ']' stops on its '[', so neither runs off the text;
\* BracketMismatch is only ever returned by the scan before the first
\* instruction, on a text that does not balance.
C30_ScansFindPartner ==
    /\ (status = "running" /\ steps = 0) =>
          \A p \in 0..(Len(code) - 1) :
             /\ code[p + 1] = "[" => ScanForward(code, p, 1) = MatchingClose(code, p)
             /\ code[p + 1] = "]" => ScanBackward(code, p, 1) = MatchingOpen(code, p)
    /\ (status = "err" /\ err.kind = "BracketMismatch") =>
          /\ steps = 0
          /\ Unbalanced(code)

\* a text with a loop inside a loop passed the scan and ran to the end, its
\* outer ']' having jumped back at least once
C30_Witness ==
    /\ status = "ok"
    /\ steps > Len(code)
    /\ \E n \in 1..Len(code) : DepthOfPrefix(code, n) >= 2

\* C31: from BF::new, a ']' that jumps back never has its '[' at index 0 of
\* the text: the jump does not panic on pos - 1 and the program counter the
\* loop goes on with is that of a '[' at index 1 or later.
C31_NoJumpBackToIndex0 ==
    [][(InLoop /\ steps' = steps + 1 /\ code[pc + 1] = "]" /\ cells[ptr] # 0)
         => /\ ScanBackward(code, pc, 1) > 0
            /\ status' = "running"
            /\ pc' = ScanBackward(code, pc, 1)
            /\ pc' > 0]_vars

\* a text that opens with "[]" skipped that pair, and a later ']' jumped back
C31_Witness ==
    /\ Len(code) >= 2
    /\ code[1] = "["
    /\ code[2] = "]"
    /\ status = "ok"
    /\ steps > Len(code)

\* C32: the next-free-cell counter of a compiler is at least 8 and no
\* compile step makes it smaller.
C32_FreeMarkMonotonic ==
    [][/\ compiler.next_var_location >= 8
       /\ compiler'.next_var_location >= compiler.next_var_location]_vars

\* a trap on the number table gives to name is not refused as an unknown
\* number, and the host call it makes, if any, is the call of that name
DispatchedByName(table) ==
    \A name \in DOMAIN table :
        (AtTrap /\ ~testBuild /\ steps' = steps + 1 /\ cells[7] = table[name]) =>
            /\ ~(status' = "err" /\ err'.kind = "InvalidSyscall")
            /\ Len(hostCalls') > Len(hostCalls) => hostCalls'[Len(hostCalls')].name = name

\* C33: for the Linux and for the macOS table of syscall_consts, a trap on
\* the number of READ, WRITE, CLOSE, SOCKET, BIND, LISTEN or ACCEPT passes
\* the validation and is dispatched to the host call of the same name.
C33_PlatformTablesDispatched ==
    [][DispatchedByName(LinuxSyscalls) /\ DispatchedByName(MacosSyscalls)]_vars

\* C34: a BIND trap whose buffer ends past the tape, and an ACCEPT trap with
\* args[1] or args[2] at or past the tape length, make run() return the
\* MemoryAccess error without a host call; no trap ends in a panic on an
\* index outside the tape.
C34_BindAcceptBoundsChecked ==
    [][(AtTrap /\ steps' = steps + 1) =>
          /\ status' # "panic"
          /\ ( \/ (cells[7] = SYS_BIND /\ cells[2] + cells[3] > TapeLen)
               \/ (cells[7] = SYS_ACCEPT /\ (cells[2] >= TapeLen \/ cells[3] >= TapeLen)) )
             => /\ status' = "err"
                /\ err'.kind = "MemoryAccess"
                /\ hostCalls' = hostCalls]_vars

\* C35: the descriptor a BIND, LISTEN or ACCEPT trap hands to the host call
\* is the value of argument cell 1, args[0].
C35_DescriptorIsArg0 ==
    [][(AtTrap /\ steps' = steps + 1 /\ Len(hostCalls') > Len(hostCalls)
        /\ hostCalls'[Len(hostCalls')].name \in {"bind", "listen", "accept"})
         => hostCalls'[Len(hostCalls')].args[1] = cells[1]]_vars

\* C36: for n < 0, compile of Assign(v, Number(n)) returns normally and the
\* run of its code ends with the cell of v holding 0.
C36_NegativeLiteralIsZero ==
    (tree.tag = "Assign" /\ tree.expr.tag = "Number" /\ tree.expr.n < 0) =>
        /\ compiler.error = ""
        /\ status # "panic"
        /\ status = "ok" => cells[VarLocation(compiler, "v")] = 0

\* the host call a trap step has just made
NewCall == hostCalls'[Len(hostCalls')]

\* a trap step that made a host call
TrapCalls(name) ==
    /\ AtTrap
    /\ steps' = steps + 1
    /\ Len(hostCalls') = Len(hostCalls) + 1
    /\ NewCall.name = name

\* the tape indices a successful read of n bytes into addr fills, less the
\* two cells the trap writes its results to afterwards
ReadTarget(addr, n) == (addr..(addr + n - 1)) \ {0, 7}

\* a write hands the host args[2] bytes, the low eight bits of the cells
WriteHandsLowBytes ==
    TrapCalls("write") =>
        /\ NewCall.args[3] = cells[3]
        /\ Len(NewCall.args[2]) = cells[3]
        /\ \A k \in 0..(cells[3] - 1) :
              NewCall.args[2][k + 1] = U32Lo(cells[cells[2] + k]) % 256

\* C37 as stated: the write part, and a read that returns n bytes leaves
\* byte k in cell args[1] + k for every k < n and changes no other cell
\* outside cells 0..7.
C37_ReadFillsWholeBuffer ==
    [][/\ WriteHandsLowBytes
       /\ (TrapCalls("read") /\ status' = "running") =>
             /\ \A k \in 0..(NewCall.ret - 1) :
                   cells'[cells[2] + k] = NewCall.args[2][k + 1]
             /\ \A i \in 8..(TapeLen - 1) :
                   i \notin cells[2]..(cells[2] + NewCall.ret - 1) => cells'[i] = cells[i]]_vars

\* C37: a WRITE trap that reaches the host hands it args[2] bytes, the k-th
\* the value of cell args[1] + k modulo 256.  A READ trap that returns n
\* bytes leaves byte k, a value in 0..255, in cell args[1] + k wherever that
\* cell is not cell 0 or cell 7, sets cells 0 and 7 to n, and changes no
\* other cell.
C37_BuffersAreLowBytes ==
    [][/\ WriteHandsLowBytes
       /\ (TrapCalls("read") /\ status' = "running") =>
             LET n == NewCall.ret IN
             /\ n <= cells[3]
             /\ \A i \in 0..(TapeLen - 1) :
                   cells'[i] = IF i \in {0, 7} THEN n
                               ELSE IF i \in ReadTarget(cells[2], n)
                               THEN NewCall.args[2][i - cells[2] + 1]
                               ELSE cells[i]
             /\ \A i \in ReadTarget(cells[2], n) : cells'[i] \in 0..255]_vars

\* a write was handed the byte 255 for a cell holding 2^32 - 1
C37_Witness ==
    /\ hostCalls # <<>>
    /\ hostCalls[Len(hostCalls)].name = "write"
    /\ cells[0] = 0 - 1
    /\ hostCalls[Len(hostCalls)].args[2] = <<255, 1, 0>>

\* the UTF-8 bytes of a character below U+0800
Utf8OfChar(c) ==
    IF c < 128 THEN <<c>> ELSE <<192 + (c \div 64), 128 + (c % 64)>>

RECURSIVE Utf8(_)
\* the UTF-8 bytes of a string
Utf8(s) == IF s = <<>> THEN <<>> ELSE Utf8OfChar(Head(s)) \o Utf8(Tail(s))

\* C38: after v = String(s) the data cells hold the UTF-8 bytes of s, one
\* per cell, and the free mark lies past them, for ASCII and non-ASCII s.
C38_StringIsUtf8 ==
    \A s \in AsciiStrings \cup NonAsciiStrings :
        (RunsCompiled(StringTree(s)) /\ status = "ok") =>
            /\ CellsHold(9, Utf8(s))
            /\ compiler.next_var_location > 8 + Len(Utf8(s))


====
